---- MODULE Spec2Model ----
(***************************************************************************)
(* Conversation-state and order-intake orchestration of the webhook        *)
(* controller (handleWebhook / handleMessage / handlePostback /            *)
(* findOrCreateCustomer) together with aiService.processMessage.           *)
(*                                                                         *)
(* Every event handler is an async function: between two awaits it runs    *)
(* without interruption, at an await any other handler may run.  A handler *)
(* is therefore a process whose pc names the await it is suspended at, and *)
(* one action resumes it and runs it to its next await.  Awaits on calls   *)
(* that touch no stored state (typing indicator, language model, reply     *)
(* generation) are folded into the step that follows them.                 *)
(*                                                                         *)
(* Specifications: Spec (events handled concurrently), SpecSeq (one after   *)
(* the other), SpecOrder (one event, any extraction), SpecLegacy (the older *)
(* handleMessage of backend/controllers/webhookController.js), and         *)
(* SpecProcessMessage and SpecPhone (pure functions of aiService).          *)
(*                                                                         *)
(* Confidence is kept in hundredths (0.6 is 60).  Ids of stored documents  *)
(* are generated when the document object is constructed; the id of the    *)
(* event whose handler constructs the document stands for them.            *)
(***************************************************************************)
EXTENDS Integers, Sequences, FiniteSets, TLC

\* ------------------------------------------------------------------ bounds
MaxEvents == 2
MaxSeqEvents == 2
MaxHistory == 3
NumHandlers == 2
NumSenders == 1
MaxOrderEvents == 1
MaxLegacyEvents == 2
MaxHistoryEvents == 2
MaxLog == 7
MaxPhoneLen == 9
MaxSheetCalls == 3

\* ------------------------------------------------------- program constants
ConfidenceThreshold == 60
HistoryWindow == 5
PhoneLength == 8

Senders == 1..NumSenders
Texts == {"m1"}

VARIABLES
    customers,      \* Customer collection: _id -> document
    conversations,  \* Conversation collection: _id -> document
    orders,         \* Order collection: _id -> document
    hs,             \* the handlers in flight: event id -> locals and position
    nextEv,         \* id of the next inbound event
    res,            \* status of the last webhook response (0: none yet)
    mirrored,       \* orders handed to googleSheetsService.appendOrder
    pmIn,           \* a call of processMessage on its own: the arguments and
                    \* what the language-model call does
    pmOut,          \* and how the call ended
    extractions,    \* the data the language model extracts during this run
    phoneIn,        \* a call of the phone functions on their own: the argument
    phoneOut,       \* and what validatePhoneNumber and normalizePhoneNumber gave
    sheetsService   \* the GoogleSheetsService singleton, its calls and the sheets

vars == <<customers, conversations, orders, hs, nextEv, res, mirrored, pmIn, pmOut,
          extractions, phoneIn, phoneOut, sheetsService>>

\* ------------------------------------------------------------ inbound data

\* What handleWebhook reads of one entry: the sender, whether the event is a
\* message with text, a message with attachments only, a message with
\* neither, or a postback, and the text; or the entry is malformed (no
\* messaging array, no sender) and reading it throws.
EventInputs ==
    [sender : Senders, kind : {"text"}, text : Texts]
      \cup [sender : Senders, kind : {"attachment", "empty", "postback", "malformed"},
            text : {""}]

\* JavaScript's null; `!x` and `x || d` for a string or null, and for a
\* number (a missing number is kept as 0, which `||` treats alike).
Null == "null"
Falsy(x) == x \in {Null, ""}
OrElse(x, d) == IF Falsy(x) THEN d ELSE x
NumOrElse(x, d) == IF x = 0 THEN d ELSE x

\* The extraction of the specification's scenario.
ExtractedData ==
    [items |-> <<[name |-> "shirt", quantity |-> 2, price |-> 15000]>>,
     phone |-> "99112233", full_address |-> "BZD-14"]

\* Extracted line items: the scenario's; one with no quantity and no price;
\* one with no name.  A missing number is kept as 0.
ItemA == [name |-> "shirt", quantity |-> 2, price |-> 15000]
ItemB == [name |-> "dress", quantity |-> 0, price |-> 0]
ItemC == [name |-> Null, quantity |-> 1, price |-> 0]

ItemLists == {<<>>, <<ItemA>>, <<ItemB>>, <<ItemC>>, <<ItemA, ItemB>>, <<ItemB, ItemA>>}

\* Extracted phones: none, empty, canonical, with a dash, of seven digits.
ExtractedPhones == {Null, "", "99112233", "9911-2233", "9911223"}

\* The data a parsed classifier result can carry: the scenario's with any of
\* the item lists, and the scenario's with any phone and any address (none,
\* empty, given).
Extractions ==
    {[ExtractedData EXCEPT !.items = l] : l \in ItemLists}
      \cup {[ExtractedData EXCEPT !.phone = p, !.full_address = a] :
               p \in ExtractedPhones, a \in {Null, "", "BZD-14"}}

\* Parsed classifier results.  intent "" stands for an absent or empty
\* intent; complaint and browsing take the same path as inquiry.
AiResults ==
    [intent : {"ordering"}, isOrderReady : {TRUE}, confidence : {60, 75},
     data : {ExtractedData}, missingFields : {<<>>}]
      \cup [intent : {"ordering"}, isOrderReady : {FALSE}, confidence : {75},
            data : {ExtractedData}, missingFields : {<<>>}]
      \cup [intent : {"inquiry"}, isOrderReady : {TRUE}, confidence : {75},
            data : {ExtractedData}, missingFields : {<<>>}]
      \cup [intent : {""}, isOrderReady : {FALSE}, confidence : {75},
            data : {ExtractedData}, missingFields : {<<>>}]

\* What the language-model call can do: reject, return content that
\* JSON.parse rejects, or return a parsable object.
LlmOutcomes ==
    [kind : {"throw", "unparsable"},
     result : {r \in AiResults : r.intent = "ordering" /\ r.isOrderReady /\ r.confidence = 75}]
      \cup [kind : {"ok"}, result : AiResults]

\* What the detached googleSheetsService.appendOrder call can do: append the
\* row; return without a row because init left the service uninitialized
\* (credentials or sheet id missing, init failed); or fail, which appendOrder
\* logs itself or, if its promise rejects, the .catch at the call logs.
MirrorOutcomes == {"appended", "uninitialized", "rejected"}

\* ------------------------------------------------------------ pure helpers

\* A phone string is the sequence of its characters; among them JavaScript's
\* null is the one-element sequence that holds no character.
NullChars == <<Null>>
Digits == {"0", "1", "2", "3", "4", "5", "6", "7", "8", "9"}
LeadingDigits == {"6", "7", "8", "9"}

\* The characters of the phone strings named in this module.
PhoneChars ==
    (Null :> NullChars) @@ ("" :> <<>>)
      @@ ("99112233" :> <<"9", "9", "1", "1", "2", "2", "3", "3">>)
      @@ ("9911-2233" :> <<"9", "9", "1", "1", "-", "2", "2", "3", "3">>)
      @@ ("9911223" :> <<"9", "9", "1", "1", "2", "2", "3">>)
      @@ ("12345678" :> <<"1", "2", "3", "4", "5", "6", "7", "8">>)
      @@ ("991122" :> <<"9", "9", "1", "1", "2", "2">>)
      @@ ("99999999" :> <<"9", "9", "9", "9", "9", "9", "9", "9">>)

IsDigit(c) == c \in Digits

\* phoneNumber.replace(/\D/g, "")
StripNonDigits(chars) == SelectSeq(chars, IsDigit)

ValidateLikeNormalizer(phoneNumber) ==
    IF phoneNumber \in {NullChars, <<>>} THEN FALSE
    ELSE Len(StripNonDigits(phoneNumber)) = PhoneLength

\* aiService.validatePhoneNumber: /^[6-9]\d{7}$/ on the digits.
ValidatePhoneNumber(phoneNumber) ==
    IF phoneNumber \in {NullChars, <<>>} THEN FALSE
    ELSE LET cleaned == StripNonDigits(phoneNumber)
         IN /\ Len(cleaned) = PhoneLength
            /\ Len(cleaned) = 1 + 7
            /\ cleaned[1] \in LeadingDigits
            /\ \A i \in 2..Len(cleaned) : IsDigit(cleaned[i])

NormalizeReturnsArgument(phoneNumber) ==
    IF phoneNumber \in {NullChars, <<>>} THEN NullChars
    ELSE LET cleaned == StripNonDigits(phoneNumber)
         IN IF Len(cleaned) = PhoneLength THEN phoneNumber ELSE NullChars

\* aiService.normalizePhoneNumber
NormalizePhoneNumber(phoneNumber) ==
    IF phoneNumber \in {NullChars, <<>>} THEN NullChars
    ELSE LET cleaned == StripNonDigits(phoneNumber)
         IN IF Len(cleaned) = PhoneLength THEN cleaned ELSE NullChars

\* The fixed value processMessage returns from its catch block.
FallbackResult ==
    [intent |-> "other", isOrderReady |-> FALSE, confidence |-> 0,
     data |-> [items |-> <<>>, phone |-> Null, full_address |-> Null],
     missingFields |-> <<"items">>]

ProcessMessageParsesOutsideTry(messageText, history, out) ==
    IF out.kind = "throw" THEN [threw |-> FALSE, value |-> FallbackResult]
    ELSE IF out.kind = "unparsable" THEN [threw |-> TRUE, value |-> out.result]
    ELSE [threw |-> FALSE, value |-> out.result]

\* aiService.processMessage: the whole body is inside try/catch.
ProcessMessage(messageText, history, out) ==
    IF out.kind \in {"throw", "unparsable"}
    THEN [threw |-> FALSE, value |-> FallbackResult]
    ELSE [threw |-> FALSE, value |-> out.result]

GatePassesAtThreshold(ai) ==
    ai.intent = "ordering" /\ ai.isOrderReady /\ ai.confidence >= ConfidenceThreshold

\* The readiness gate of handleMessage.
GatePasses(ai) ==
    ai.intent = "ordering" /\ ai.isOrderReady /\ ai.confidence > ConfidenceThreshold

\* conversation.currentIntent = aiResult.intent || "browsing"
CurrentIntentOf(ai) == IF ai.intent = "" THEN "browsing" ELSE ai.intent

ElseStatusAlwaysWaiting(ai, status) == "waiting_for_info"

\* The status the else branch leaves: waiting_for_info for an ordering
\* intent that is not ready, the old status otherwise.
ElseStatus(ai, status) ==
    IF ai.intent = "ordering" /\ ~ai.isOrderReady THEN "waiting_for_info" ELSE status

Min(a, b) == IF a < b THEN a ELSE b

\* Array.prototype.slice(-n)
SliceLast(s, n) == SubSeq(s, Len(s) - Min(n, Len(s)) + 1, Len(s))

\* conversation.messages.slice(-5)
History(messages) == SliceLast(messages, HistoryWindow)

CustomerEntryAsBot(text) == [sender |-> "bot", text |-> text]

\* The entry addMessage("customer", messageText) pushes.
CustomerEntry(text) == [sender |-> "customer", text |-> text]

\* The entry addMessage("bot", response.text) pushes.
BotEntry(text) == [sender |-> "bot", text |-> text]

\* ------------------------------------------------------------- documents

NoDoc ==
    [id |-> 0, isNew |-> FALSE, fb |-> 0, customer |-> 0, messages |-> <<>>,
     unsaved |-> 0, status |-> "", currentIntent |-> "",
     modStatus |-> FALSE, modIntent |-> FALSE]

NoAi ==
    [intent |-> "", isOrderReady |-> FALSE, confidence |-> 0,
     data |-> [items |-> <<>>, phone |-> Null, full_address |-> Null],
     missingFields |-> <<>>]

IdleHandler ==
    [pc |-> "idle", ev |-> 0, sender |-> 0, kind |-> "", text |-> "",
     customer |-> 0, doc |-> NoDoc, history |-> <<>>, ai |-> NoAi,
     response |-> "", error |-> "", loaded |-> "", orderId |-> 0, mirror |-> "",
     sent |-> {}, sends |-> 0]

\* new Conversation({customer, facebookConversationId, currentIntent}):
\* an unsaved document with the schema's default status and an empty log.
NewConversation(id, customer, sender) ==
    [id |-> id, isNew |-> TRUE, fb |-> sender, customer |-> customer,
     messages |-> <<>>, unsaved |-> 0, status |-> "new",
     currentIntent |-> "browsing", modStatus |-> FALSE, modIntent |-> FALSE]

\* The in-memory document findOne hydrates from a stored one.
Hydrate(id) ==
    [id |-> id, isNew |-> FALSE, fb |-> conversations[id].facebookConversationId,
     customer |-> conversations[id].customer,
     messages |-> conversations[id].messages, unsaved |-> 0,
     status |-> conversations[id].status,
     currentIntent |-> conversations[id].currentIntent,
     modStatus |-> FALSE, modIntent |-> FALSE]

\* Array push on the in-memory document.
Push(doc, entry) ==
    [doc EXCEPT !.messages = Append(@, entry), !.unsaved = @ + 1]

\* Assignment of a path: the path is marked modified when the value changes.
SetStatus(doc, s) ==
    [doc EXCEPT !.status = s, !.modStatus = @ \/ (doc.status # s)]

SetIntent(doc, i) ==
    [doc EXCEPT !.currentIntent = i, !.modIntent = @ \/ (doc.currentIntent # i)]

\* document.save(): a new document is inserted whole; of a stored one the
\* pushed entries are appended to the stored array and the modified paths set.
Stored(doc) ==
    IF doc.isNew
    THEN conversations @@
           (doc.id :> [facebookConversationId |-> doc.fb, customer |-> doc.customer,
                       messages |-> doc.messages, status |-> doc.status,
                       currentIntent |-> doc.currentIntent])
    ELSE [conversations EXCEPT
            ![doc.id] = [@ EXCEPT
               !.messages = @ \o SliceLast(doc.messages, doc.unsaved),
               !.status = IF doc.modStatus THEN doc.status ELSE @,
               !.currentIntent = IF doc.modIntent THEN doc.currentIntent ELSE @]]

\* The in-memory document after a save that succeeded.
Saved(doc) ==
    [doc EXCEPT !.isNew = FALSE, !.unsaved = 0, !.modStatus = FALSE, !.modIntent = FALSE]

OrderDataReviewsWhenBothMissing(customer, conversation, messageText, ai) ==
    [customer |-> customer,
     conversation |-> conversation,
     phoneNumber |-> OrElse(ai.data.phone, "99999999"),
     address |-> OrElse(ai.data.full_address, "address-unknown"),
     items |-> [i \in 1..Len(ai.data.items) |->
                  [itemName |-> OrElse(ai.data.items[i].name, "item"),
                   quantity |-> NumOrElse(ai.data.items[i].quantity, 1),
                   price |-> 0]],
     totalAmount |-> 0,
     aiExtraction |-> [rawMessage |-> messageText,
                       extractedData |-> ai.data,
                       confidence |-> ai.confidence,
                       needsReview |-> Falsy(ai.data.phone) /\ Falsy(ai.data.full_address)],
     status |-> "pending"]

\* orderData of handleMessage, for the handler's customer and conversation.
OrderData(customer, conversation, messageText, ai) ==
    [customer |-> customer,
     conversation |-> conversation,
     phoneNumber |-> OrElse(ai.data.phone, "99999999"),
     address |-> OrElse(ai.data.full_address, "address-unknown"),
     items |-> [i \in 1..Len(ai.data.items) |->
                  [itemName |-> OrElse(ai.data.items[i].name, "item"),
                   quantity |-> NumOrElse(ai.data.items[i].quantity, 1),
                   price |-> 0]],
     totalAmount |-> 0,
     aiExtraction |-> [rawMessage |-> messageText,
                       extractedData |-> ai.data,
                       confidence |-> ai.confidence,
                       needsReview |-> Falsy(ai.data.phone) \/ Falsy(ai.data.full_address)],
     status |-> "pending"]

\* ------------------------------------------------------------ handler steps

Active == DOMAIN hs

\* A handler at its first await: handleMessage with text has called
\* Customer.findOne, with attachments only messengerService.sendMessage,
\* with neither it has returned; handlePostback has called sendMessage.  For
\* a malformed entry the callback has thrown before calling either, and the
\* rejection is caught by handleWebhook.
StartHandler(e, ev) ==
    [IdleHandler EXCEPT
       !.pc = CASE e.kind = "text" -> "findCustomer"
                [] e.kind = "attachment" -> "sendAttachment"
                [] e.kind = "postback" -> "sendPostback"
                [] OTHER -> "done",
       !.error = IF e.kind = "malformed" THEN "entry" ELSE "",
       !.ev = ev, !.sender = e.sender, !.kind = e.kind, !.text = e.text]

\* An exception reaches handleMessage's catch block.
Throw(h, what) ==
    hs' = [hs EXCEPT ![h].pc = "catch", ![h].error = what]

HandleWebhookAcksLast(maxBatch, maxEvents) ==
    \E object \in {"page", "other"} :
      IF object # "page"
      THEN /\ res' = 404
           /\ UNCHANGED <<customers, conversations, orders, hs, nextEv, mirrored, pmIn, pmOut, extractions, phoneIn, phoneOut, sheetsService>>
      ELSE \E n \in 1..maxBatch :
             /\ Cardinality(Active) + n <= NumHandlers
             /\ nextEv + n - 1 <= maxEvents
             /\ \E entries \in [1..n -> EventInputs] :
                  hs' = hs @@ [ev \in nextEv..(nextEv + n - 1) |->
                                 StartHandler(entries[ev - nextEv + 1], ev)]
             /\ nextEv' = nextEv + n
             /\ UNCHANGED <<res, customers, conversations, orders, mirrored, pmIn, pmOut, extractions, phoneIn, phoneOut, sheetsService>>

\* handleWebhook: 404 for a body that is no page subscription; otherwise 200
\* at once and one handler per entry, all started before any is resumed.
HandleWebhook(maxBatch, maxEvents) ==
    \E object \in {"page", "other"} :
      IF object # "page"
      THEN /\ res' = 404
           /\ UNCHANGED <<customers, conversations, orders, hs, nextEv, mirrored, pmIn, pmOut, extractions, phoneIn, phoneOut, sheetsService>>
      ELSE \E n \in 1..maxBatch :
             /\ Cardinality(Active) + n <= NumHandlers
             /\ nextEv + n - 1 <= maxEvents
             /\ \E entries \in [1..n -> EventInputs] :
                  hs' = hs @@ [ev \in nextEv..(nextEv + n - 1) |->
                                 StartHandler(entries[ev - nextEv + 1], ev)]
             /\ nextEv' = nextEv + n
             /\ res' = 200
             /\ UNCHANGED <<customers, conversations, orders, mirrored, pmIn, pmOut, extractions, phoneIn, phoneOut, sheetsService>>

\* findOrCreateCustomer: Customer.findOne({facebookId}) resolves.
FindCustomer(h) ==
    /\ hs[h].pc = "findCustomer"
    /\ \/ Throw(h, "findCustomer")
       \/ \E c \in {c \in DOMAIN customers : customers[c].facebookId = hs[h].sender} :
            hs' = [hs EXCEPT ![h].customer = c, ![h].pc = "findConversation"]
       \/ /\ \A c \in DOMAIN customers : customers[c].facebookId # hs[h].sender
          /\ hs' = [hs EXCEPT ![h].pc = "createCustomer"]
    /\ UNCHANGED <<customers, conversations, orders, nextEv, res, mirrored, pmIn, pmOut, extractions, phoneIn, phoneOut, sheetsService>>

\* findOrCreateCustomer: getUserInfo, new Customer, customer.save().
CreateCustomer(h) ==
    /\ hs[h].pc = "createCustomer"
    /\ \/ /\ Throw(h, "createCustomer")
          /\ UNCHANGED customers
       \/ /\ customers' = customers @@ (h :> [facebookId |-> hs[h].sender])
          /\ hs' = [hs EXCEPT ![h].customer = h, ![h].pc = "findConversation"]
    /\ UNCHANGED <<conversations, orders, nextEv, res, mirrored, pmIn, pmOut, extractions, phoneIn, phoneOut, sheetsService>>

LoadedSlicesAfterPush(h, doc) ==
    hs' = [hs EXCEPT ![h].doc = Push(doc, CustomerEntry(hs[h].text)),
                     ![h].history = History(Push(doc, CustomerEntry(hs[h].text)).messages),
                     ![h].loaded = doc.status,
                     ![h].pc = "addCustomerMessage"]

\* The handler once Conversation.findOne has given `doc`: take the history,
\* push the customer's message and call save (inside addMessage).
Loaded(h, doc) ==
    hs' = [hs EXCEPT ![h].doc = Push(doc, CustomerEntry(hs[h].text)),
                     ![h].history = History(doc.messages),
                     ![h].loaded = doc.status,
                     ![h].pc = "addCustomerMessage"]

\* Conversation.findOne({facebookConversationId}) resolves: any stored
\* conversation of the sender, or none and a new one is constructed.
FindConversation(h) ==
    /\ hs[h].pc = "findConversation"
    /\ \/ Throw(h, "findConversation")
       \/ \E c \in {c \in DOMAIN conversations :
                      conversations[c].facebookConversationId = hs[h].sender} :
            Loaded(h, Hydrate(c))
       \/ /\ \A c \in DOMAIN conversations :
               conversations[c].facebookConversationId # hs[h].sender
          /\ Loaded(h, NewConversation(h, hs[h].customer, hs[h].sender))
    /\ UNCHANGED <<customers, conversations, orders, nextEv, res, mirrored, pmIn, pmOut, extractions, phoneIn, phoneOut, sheetsService>>

\* conversation.addMessage("customer", messageText): the save resolves.
AddCustomerMessage(h) ==
    /\ hs[h].pc = "addCustomerMessage"
    /\ \/ /\ Throw(h, "addCustomerMessage")
          /\ UNCHANGED conversations
       \/ /\ conversations' = Stored(hs[h].doc)
          /\ hs' = [hs EXCEPT ![h].doc = Saved(@), ![h].pc = "classify"]
    /\ UNCHANGED <<customers, orders, nextEv, res, mirrored, pmIn, pmOut, extractions, phoneIn, phoneOut, sheetsService>>

\* sendTypingIndicator, processMessage, the intent update and the gate; then
\* either order.save() is called or the else branch runs to
\* conversation.save().
Classify(h) ==
    /\ hs[h].pc = "classify"
    /\ \/ Throw(h, "sendTypingIndicator")
       \/ \E out \in LlmOutcomes, d \in extractions :
            LET r == ProcessMessage(hs[h].text, hs[h].history,
                                    [out EXCEPT !.result.data = d])
                ai == r.value
                doc == SetIntent(hs[h].doc, CurrentIntentOf(ai))
            IN IF r.threw
               THEN Throw(h, "processMessage")
               ELSE IF GatePasses(ai)
               THEN hs' = [hs EXCEPT ![h].ai = ai,
                                     ![h].doc = doc, ![h].pc = "saveOrder"]
               ELSE hs' = [hs EXCEPT ![h].ai = ai,
                                     ![h].doc = SetStatus(doc, ElseStatus(ai, doc.status)),
                                     ![h].response = "reply",
                                     ![h].pc = "saveConversation"]
    /\ UNCHANGED <<customers, conversations, orders, nextEv, res, mirrored, pmIn, pmOut, extractions, phoneIn, phoneOut, sheetsService>>

SaveOrderStatusFirst(h) ==
    /\ hs[h].pc = "saveOrder"
    /\ conversations' = [conversations EXCEPT ![hs[h].doc.id].status = "order_created"]
    /\ \/ /\ Throw(h, "saveOrder")
          /\ UNCHANGED orders
       \/ /\ orders' = orders @@
               (h :> OrderData(hs[h].customer, hs[h].doc.id, hs[h].text, hs[h].ai))
          /\ hs' = [hs EXCEPT ![h].orderId = h, ![h].pc = "findOrder"]
    /\ UNCHANGED <<customers, nextEv, res, mirrored, pmIn, pmOut, extractions, phoneIn, phoneOut, sheetsService>>

SaveOrderDispatchesMirror(h) ==
    /\ hs[h].pc = "saveOrder"
    /\ mirrored' = mirrored \cup {h}
    /\ \/ /\ Throw(h, "saveOrder")
          /\ UNCHANGED orders
       \/ /\ orders' = orders @@
               (h :> OrderData(hs[h].customer, hs[h].doc.id, hs[h].text, hs[h].ai))
          /\ hs' = [hs EXCEPT ![h].orderId = h, ![h].pc = "findOrder"]
    /\ UNCHANGED <<customers, conversations, nextEv, res, pmIn, pmOut, extractions, phoneIn, phoneOut, sheetsService>>

\* new Order(orderData); order.save() resolves.
SaveOrder(h) ==
    /\ hs[h].pc = "saveOrder"
    /\ \/ /\ Throw(h, "saveOrder")
          /\ UNCHANGED orders
       \/ /\ orders' = orders @@
               (h :> OrderData(hs[h].customer, hs[h].doc.id, hs[h].text, hs[h].ai))
          /\ hs' = [hs EXCEPT ![h].orderId = h, ![h].pc = "findOrder"]
    /\ UNCHANGED <<customers, conversations, nextEv, res, mirrored, pmIn, pmOut, extractions, phoneIn, phoneOut, sheetsService>>

FindOrderAwaitsMirror(h) ==
    /\ hs[h].pc = "findOrder"
    /\ \/ /\ Throw(h, "findOrder")
          /\ UNCHANGED mirrored
       \/ \E m \in MirrorOutcomes :
            /\ mirrored' = mirrored \cup {hs[h].orderId}
            /\ IF m = "rejected"
               THEN hs' = [hs EXCEPT ![h].mirror = m, ![h].error = "appendOrder",
                                     ![h].pc = "catch"]
               ELSE hs' = [hs EXCEPT ![h].mirror = m,
                                     ![h].response = "reply",
                                     ![h].doc = SetStatus(@, "order_created"),
                                     ![h].pc = "saveConversation"]
    /\ UNCHANGED <<customers, conversations, orders, nextEv, res, pmIn, pmOut, extractions, phoneIn, phoneOut, sheetsService>>

\* Order.findById(order._id).populate("customer") resolves; appendOrder is
\* called and not awaited, so its promise is pending when the handler goes
\* on; generateResponse gives the reply; the status becomes order_created
\* and conversation.save() is called.
FindOrder(h) ==
    /\ hs[h].pc = "findOrder"
    /\ \/ /\ Throw(h, "findOrder")
          /\ UNCHANGED mirrored
       \/ /\ mirrored' = mirrored \cup {hs[h].orderId}
          /\ hs' = [hs EXCEPT ![h].mirror = "pending",
                              ![h].response = "reply",
                              ![h].doc = SetStatus(@, "order_created"),
                              ![h].pc = "saveConversation"]
    /\ UNCHANGED <<customers, conversations, orders, nextEv, res, pmIn, pmOut, extractions, phoneIn, phoneOut, sheetsService>>

SaveConversationRepliesFirst(h) ==
    /\ hs[h].pc = "saveConversation"
    /\ \/ /\ Throw(h, "saveConversation")
          /\ UNCHANGED conversations
       \/ /\ conversations' = Stored(hs[h].doc)
          /\ hs' = [hs EXCEPT ![h].doc = Push(Saved(@), BotEntry(hs[h].response)),
                              ![h].sent = @ \cup {"reply"},
                              ![h].pc = "addBotMessage"]
    /\ UNCHANGED <<customers, orders, nextEv, res, mirrored, pmIn, pmOut, extractions, phoneIn, phoneOut, sheetsService>>

\* The promise appendOrder returned settles, at any moment after the call:
\* the row was added, the service was not initialized, or the promise
\* rejected into the .catch that logs.  It may also never settle.
AppendOrderSettles(h) ==
    /\ hs[h].mirror = "pending"
    /\ \E m \in MirrorOutcomes : hs' = [hs EXCEPT ![h].mirror = m]
    /\ UNCHANGED <<customers, conversations, orders, nextEv, res, mirrored, pmIn, pmOut, extractions, phoneIn, phoneOut, sheetsService>>

\* conversation.save() resolves; addMessage("bot", response.text) pushes the
\* reply and calls save.
SaveConversation(h) ==
    /\ hs[h].pc = "saveConversation"
    /\ \/ /\ Throw(h, "saveConversation")
          /\ UNCHANGED conversations
       \/ /\ conversations' = Stored(hs[h].doc)
          /\ hs' = [hs EXCEPT ![h].doc = Push(Saved(@), BotEntry(hs[h].response)),
                              ![h].pc = "addBotMessage"]
    /\ UNCHANGED <<customers, orders, nextEv, res, mirrored, pmIn, pmOut, extractions, phoneIn, phoneOut, sheetsService>>

\* conversation.addMessage("bot", response.text): the save resolves.
AddBotMessage(h) ==
    /\ hs[h].pc = "addBotMessage"
    /\ \/ /\ Throw(h, "addBotMessage")
          /\ UNCHANGED conversations
       \/ /\ conversations' = Stored(hs[h].doc)
          /\ hs' = [hs EXCEPT ![h].doc = Saved(@), ![h].pc = "sendReply"]
    /\ UNCHANGED <<customers, orders, nextEv, res, mirrored, pmIn, pmOut, extractions, phoneIn, phoneOut, sheetsService>>

SendReplyDeliversThenThrows(h) ==
    /\ hs[h].pc = "sendReply"
    /\ \/ Throw(h, "sendTypingIndicator")
       \/ hs' = [hs EXCEPT ![h].sends = @ + 1, ![h].sent = @ \cup {"reply"},
                           ![h].pc = "catch", ![h].error = "sendMessage"]
       \/ hs' = [hs EXCEPT ![h].sends = @ + 1, ![h].sent = @ \cup {"reply"},
                           ![h].pc = "done"]
    /\ UNCHANGED <<customers, conversations, orders, nextEv, res, mirrored, pmIn, pmOut, extractions, phoneIn, phoneOut, sheetsService>>

\* sendTypingIndicator(senderPsid, false), then sendMessage(response).
SendReply(h) ==
    /\ hs[h].pc = "sendReply"
    /\ \/ Throw(h, "sendTypingIndicator")
       \/ hs' = [hs EXCEPT ![h].sends = @ + 1, ![h].pc = "catch",
                           ![h].error = "sendMessage"]
       \/ hs' = [hs EXCEPT ![h].sends = @ + 1, ![h].sent = @ \cup {"reply"},
                           ![h].pc = "done"]
    /\ UNCHANGED <<customers, conversations, orders, nextEv, res, mirrored, pmIn, pmOut, extractions, phoneIn, phoneOut, sheetsService>>

\* The attachments branch: sendMessage with the fixed notice.
SendAttachment(h) ==
    /\ hs[h].pc = "sendAttachment"
    /\ \/ hs' = [hs EXCEPT ![h].sends = @ + 1, ![h].pc = "catch",
                           ![h].error = "sendMessage"]
       \/ hs' = [hs EXCEPT ![h].sends = @ + 1, ![h].sent = @ \cup {"notice"},
                           ![h].pc = "done"]
    /\ UNCHANGED <<customers, conversations, orders, nextEv, res, mirrored, pmIn, pmOut, extractions, phoneIn, phoneOut, sheetsService>>

\* handleMessage's catch block: the apology is sent; a failure of that send
\* is caught and logged.
CatchError(h) ==
    /\ hs[h].pc = "catch"
    /\ \/ hs' = [hs EXCEPT ![h].sends = @ + 1, ![h].sent = @ \cup {"apology"},
                           ![h].pc = "done"]
       \/ hs' = [hs EXCEPT ![h].sends = @ + 1, ![h].pc = "done"]
    /\ UNCHANGED <<customers, conversations, orders, nextEv, res, mirrored, pmIn, pmOut, extractions, phoneIn, phoneOut, sheetsService>>

HandlePostbackApologises(h) ==
    /\ hs[h].pc = "sendPostback"
    /\ \/ hs' = [hs EXCEPT ![h].sends = @ + 1, ![h].sent = @ \cup {"postback"},
                           ![h].pc = "done"]
       \/ hs' = [hs EXCEPT ![h].sends = @ + 1, ![h].error = "sendMessage",
                           ![h].pc = "catch"]
    /\ UNCHANGED <<customers, conversations, orders, nextEv, res, mirrored, pmIn, pmOut, extractions, phoneIn, phoneOut, sheetsService>>

\* handlePostback: sendMessage with the payload's text; an error is logged.
HandlePostback(h) ==
    /\ hs[h].pc = "sendPostback"
    /\ \/ hs' = [hs EXCEPT ![h].sends = @ + 1, ![h].sent = @ \cup {"postback"},
                           ![h].pc = "done"]
       \/ hs' = [hs EXCEPT ![h].sends = @ + 1, ![h].error = "sendMessage",
                           ![h].pc = "done"]
    /\ UNCHANGED <<customers, conversations, orders, nextEv, res, mirrored, pmIn, pmOut, extractions, phoneIn, phoneOut, sheetsService>>

\* The handler's promise has resolved: the entry's callback in handleWebhook
\* returns and the handler's locals are gone.
Return(h) ==
    /\ hs[h].pc = "done"
    /\ hs' = [e \in Active \ {h} |-> hs[e]]
    /\ UNCHANGED <<customers, conversations, orders, nextEv, res, mirrored, pmIn, pmOut, extractions, phoneIn, phoneOut, sheetsService>>

\* ---------------------------------------------------------- specifications

\* new GoogleSheetsService(): doc null, initialized false; no document
\* object made, no call of appendOrder under way, no row in any sheet.  The
\* credentials are what the process environment holds.
NewSheetsService(credentials) ==
    [doc |-> 0, initialized |-> FALSE, credentials |-> credentials,
     docs |-> <<>>, calls |-> <<>>, rows |-> {}]

NotCalled == [called |-> FALSE, threw |-> FALSE, value |-> NoAi]

InitStore ==
    /\ customers = <<>>
    /\ conversations = <<>>
    /\ orders = <<>>
    /\ hs = <<>>
    /\ nextEv = 1
    /\ res = 0
    /\ mirrored = {}

PhoneNotCalled ==
    [validated |-> FALSE, valid |-> FALSE, normalized |-> FALSE, canonical |-> NullChars]

\* No call of processMessage or of the phone functions on their own.
NoCalls ==
    /\ pmIn = [messageText |-> "m1", history |-> <<>>,
               llm |-> [kind |-> "ok", result |-> FallbackResult]]
    /\ pmOut = NotCalled
    /\ phoneIn = NullChars
    /\ phoneOut = PhoneNotCalled
    /\ sheetsService = NewSheetsService(TRUE)

Init ==
    /\ InitStore
    /\ NoCalls
    /\ extractions = {ExtractedData}

\* Events are handled concurrently: the entries of one batch, and the
\* batches of webhook requests that overlap.
Deliver == HandleWebhook(NumHandlers, MaxEvents)

Next ==
    \/ Deliver
    \/ \E h \in Active : FindCustomer(h)
    \/ \E h \in Active : CreateCustomer(h)
    \/ \E h \in Active : FindConversation(h)
    \/ \E h \in Active : AddCustomerMessage(h)
    \/ \E h \in Active : Classify(h)
    \/ \E h \in Active : SaveOrder(h)
    \/ \E h \in Active : FindOrder(h)
    \/ \E h \in Active : AppendOrderSettles(h)
    \/ \E h \in Active : SaveConversation(h)
    \/ \E h \in Active : AddBotMessage(h)
    \/ \E h \in Active : SendReply(h)
    \/ \E h \in Active : SendAttachment(h)
    \/ \E h \in Active : CatchError(h)
    \/ \E h \in Active : HandlePostback(h)
    \/ \E h \in Active : Return(h)

Spec == Init /\ [][Next]_vars

\* One event at a time: a webhook request carries one entry and arrives
\* after the handler of the one before has returned.
DeliverOne == Active = {} /\ HandleWebhook(1, MaxSeqEvents)

NextSeq ==
    \/ DeliverOne
    \/ \E h \in Active : FindCustomer(h)
    \/ \E h \in Active : CreateCustomer(h)
    \/ \E h \in Active : FindConversation(h)
    \/ \E h \in Active : AddCustomerMessage(h)
    \/ \E h \in Active : Classify(h)
    \/ \E h \in Active : SaveOrder(h)
    \/ \E h \in Active : FindOrder(h)
    \/ \E h \in Active : AppendOrderSettles(h)
    \/ \E h \in Active : SaveConversation(h)
    \/ \E h \in Active : AddBotMessage(h)
    \/ \E h \in Active : SendReply(h)
    \/ \E h \in Active : SendAttachment(h)
    \/ \E h \in Active : CatchError(h)
    \/ \E h \in Active : HandlePostback(h)
    \/ \E h \in Active : Return(h)

SpecSeq == Init /\ [][NextSeq]_vars

\* The continuation of a handler runs once the call it awaits has returned
\* or failed: the event loop leaves no runnable handler waiting for ever.
\* The appendOrder call is not among the awaited ones and may never settle.
HandlerStep(h) ==
    \/ FindCustomer(h) \/ CreateCustomer(h) \/ FindConversation(h)
    \/ AddCustomerMessage(h) \/ Classify(h) \/ SaveOrder(h) \/ FindOrder(h)
    \/ SaveConversation(h) \/ AddBotMessage(h) \/ SendReply(h)
    \/ SendAttachment(h) \/ CatchError(h) \/ HandlePostback(h)

SpecSeqFair ==
    /\ Init /\ [][NextSeq]_vars
    /\ \A h \in 1..MaxSeqEvents : WF_vars(h \in Active /\ HandlerStep(h))

\* processMessage on its own: any text, any history of at most MaxHistory
\* entries, any behaviour of the language-model call.
Entries == [sender : {"customer", "bot"}, text : Texts \cup {"reply"}]

Histories == UNION {[1..n -> Entries] : n \in 0..MaxHistory}

InitProcessMessage ==
    /\ InitStore
    /\ pmIn \in [messageText : Texts, history : Histories, llm : LlmOutcomes]
    /\ pmOut = NotCalled
    /\ extractions = {ExtractedData}
    /\ phoneIn = NullChars
    /\ phoneOut = PhoneNotCalled
    /\ sheetsService = NewSheetsService(TRUE)

CallProcessMessage ==
    /\ ~pmOut.called
    /\ LET r == ProcessMessage(pmIn.messageText, pmIn.history, pmIn.llm)
       IN pmOut' = [called |-> TRUE, threw |-> r.threw, value |-> r.value]
    /\ UNCHANGED <<customers, conversations, orders, hs, nextEv, res, mirrored, pmIn,
                 extractions, phoneIn, phoneOut, sheetsService>>

SpecProcessMessage == InitProcessMessage /\ [][CallProcessMessage]_vars

\* ------------------------------------------- the controller's older version
\* backend/controllers/webhookController.js holds an older handleMessage.
\* findOrCreateCustomer, the addMessage and save calls, the sends of the
\* reply and of the attachments notice and handlePostback are the same code
\* as above; the construction of a new conversation, the classification
\* and the catch block differ.

\* What aiService.extractOrderFromMessage resolves to: a parsed result, or
\* its fallback when the language-model call or JSON.parse failed.
LegacyFallbackResult == [isOrder |-> FALSE, confidence |-> 0, needsMoreInfo |-> TRUE]

LegacyAiResults ==
    [isOrder : BOOLEAN, confidence : {60, 75}, needsMoreInfo : BOOLEAN]
      \cup {LegacyFallbackResult}

\* new Conversation({customer, facebookConversationId, currentIntent: "ordering"})
LegacyNewConversation(id, customer, sender) ==
    [NewConversation(id, customer, sender) EXCEPT !.currentIntent = "ordering"]

\* Conversation.findOne resolves; the customer's message is pushed and save
\* called (inside addMessage).
LegacyFindConversation(h) ==
    /\ hs[h].pc = "findConversation"
    /\ \/ Throw(h, "findConversation")
       \/ \E c \in {c \in DOMAIN conversations :
                      conversations[c].facebookConversationId = hs[h].sender} :
            hs' = [hs EXCEPT ![h].doc = Push(Hydrate(c), CustomerEntry(hs[h].text)),
                             ![h].loaded = conversations[c].status,
                             ![h].pc = "addCustomerMessage"]
       \/ /\ \A c \in DOMAIN conversations :
               conversations[c].facebookConversationId # hs[h].sender
          /\ hs' = [hs EXCEPT
                      ![h].doc = Push(LegacyNewConversation(h, hs[h].customer, hs[h].sender),
                                      CustomerEntry(hs[h].text)),
                      ![h].loaded = "new",
                      ![h].pc = "addCustomerMessage"]
    /\ UNCHANGED <<customers, conversations, orders, nextEv, res, mirrored, pmIn, pmOut, extractions, phoneIn, phoneOut, sheetsService>>

\* sendTypingIndicator, extractOrderFromMessage and the three branches: an
\* order (currentIntent becomes order_created, save is called), missing
\* information (status becomes waiting_for_info, save is called), or
\* neither (addMessage("bot") is called at once).
LegacyClassify(h) ==
    /\ hs[h].pc = "classify"
    /\ \/ Throw(h, "sendTypingIndicator")
       \/ \E r \in LegacyAiResults :
            IF r.isOrder /\ r.confidence > ConfidenceThreshold
            THEN hs' = [hs EXCEPT ![h].doc = SetIntent(@, "order_created"),
                                  ![h].response = "reply",
                                  ![h].pc = "saveConversation"]
            ELSE IF r.needsMoreInfo
            THEN hs' = [hs EXCEPT ![h].doc = SetStatus(@, "waiting_for_info"),
                                  ![h].response = "reply",
                                  ![h].pc = "saveConversation"]
            ELSE hs' = [hs EXCEPT ![h].doc = Push(@, BotEntry("reply")),
                                  ![h].response = "reply",
                                  ![h].pc = "addBotMessage"]
    /\ UNCHANGED <<customers, conversations, orders, nextEv, res, mirrored, pmIn, pmOut, extractions, phoneIn, phoneOut, sheetsService>>

\* The older catch block: the apology is sent with an await that nothing
\* guards, so when that send fails handleMessage's promise rejects.
LegacyCatchError(h) ==
    /\ hs[h].pc = "catch"
    /\ \/ hs' = [hs EXCEPT ![h].sent = @ \cup {"apology"}, ![h].pc = "done"]
       \/ hs' = [hs EXCEPT ![h].pc = "rejected"]
    /\ UNCHANGED <<customers, conversations, orders, nextEv, res, mirrored, pmIn, pmOut, extractions, phoneIn, phoneOut, sheetsService>>

\* The older handleWebhook: 200 at once, then forEach over the entries with
\* an async callback; here one entry, after the handler before has settled.
DeliverLegacy ==
    /\ \A h \in Active : hs[h].pc = "rejected"
    /\ Cardinality(Active) < NumHandlers
    /\ HandleWebhook(1, MaxLegacyEvents)

NextLegacy ==
    \/ DeliverLegacy
    \/ \E h \in Active : FindCustomer(h)
    \/ \E h \in Active : CreateCustomer(h)
    \/ \E h \in Active : LegacyFindConversation(h)
    \/ \E h \in Active : AddCustomerMessage(h)
    \/ \E h \in Active : LegacyClassify(h)
    \/ \E h \in Active : SaveConversation(h)
    \/ \E h \in Active : AddBotMessage(h)
    \/ \E h \in Active : SendReply(h)
    \/ \E h \in Active : SendAttachment(h)
    \/ \E h \in Active : LegacyCatchError(h)
    \/ \E h \in Active : HandlePostback(h)
    \/ \E h \in Active : Return(h)

SpecLegacy == Init /\ [][NextLegacy]_vars

\* A sender with a longer past.  The logs earlier events can have left: every
\* event appended the customer's message, and the bot's reply after it
\* unless its handling failed in between.
StoredLogs ==
    {l \in UNION {[1..n -> {CustomerEntry("m1"), BotEntry("reply")}] : n \in 1..MaxLog} :
       /\ l[1].sender = "customer"
       /\ \A i \in 2..Len(l) : l[i].sender = "bot" => l[i - 1].sender = "customer"}

\* Either nothing is stored yet, or event 1 created the sender's customer and
\* conversation and events since (none of them an order) left one of
\* StoredLogs.
InitHistory ==
    /\ NoCalls
    /\ extractions = {ExtractedData}
    /\ \/ InitStore
       \/ /\ customers = (1 :> [facebookId |-> 1])
          /\ \E l \in StoredLogs :
               conversations = (1 :> [facebookConversationId |-> 1, customer |-> 1,
                                      messages |-> l, status |-> "new",
                                      currentIntent |-> "browsing"])
          /\ orders = <<>>
          /\ hs = <<>>
          /\ nextEv = 2
          /\ res = 200
          /\ mirrored = {}

DeliverHistory == Active = {} /\ HandleWebhook(1, MaxHistoryEvents)

NextHistory ==
    \/ DeliverHistory
    \/ \E h \in Active : FindCustomer(h)
    \/ \E h \in Active : CreateCustomer(h)
    \/ \E h \in Active : FindConversation(h)
    \/ \E h \in Active : AddCustomerMessage(h)
    \/ \E h \in Active : Classify(h)
    \/ \E h \in Active : SaveOrder(h)
    \/ \E h \in Active : FindOrder(h)
    \/ \E h \in Active : AppendOrderSettles(h)
    \/ \E h \in Active : SaveConversation(h)
    \/ \E h \in Active : AddBotMessage(h)
    \/ \E h \in Active : SendReply(h)
    \/ \E h \in Active : SendAttachment(h)
    \/ \E h \in Active : CatchError(h)
    \/ \E h \in Active : HandlePostback(h)
    \/ \E h \in Active : Return(h)

SpecHistory == InitHistory /\ [][NextHistory]_vars

\* One text message whose extraction is any of Extractions.
InitOrder ==
    /\ InitStore
    /\ NoCalls
    /\ extractions = Extractions

DeliverOrder == Active = {} /\ HandleWebhook(1, MaxOrderEvents)

NextOrder ==
    \/ DeliverOrder
    \/ \E h \in Active : FindCustomer(h)
    \/ \E h \in Active : CreateCustomer(h)
    \/ \E h \in Active : FindConversation(h)
    \/ \E h \in Active : AddCustomerMessage(h)
    \/ \E h \in Active : Classify(h)
    \/ \E h \in Active : SaveOrder(h)
    \/ \E h \in Active : FindOrder(h)
    \/ \E h \in Active : AppendOrderSettles(h)
    \/ \E h \in Active : SaveConversation(h)
    \/ \E h \in Active : AddBotMessage(h)
    \/ \E h \in Active : SendReply(h)
    \/ \E h \in Active : SendAttachment(h)
    \/ \E h \in Active : CatchError(h)
    \/ \E h \in Active : HandlePostback(h)
    \/ \E h \in Active : Return(h)

SpecOrder == InitOrder /\ [][NextOrder]_vars

\* The phone functions on their own: null, every string of at most
\* MaxPhoneLen characters over a leading digit, another digit and a
\* non-digit, and the specification's examples.
PhoneAlphabet == {"6", "5", "-"}

PhoneInputs ==
    {NullChars}
      \cup UNION {[1..n -> PhoneAlphabet] : n \in 0..MaxPhoneLen}
      \cup {PhoneChars[s] : s \in {"99112233", "9911-2233", "12345678", "991122"}}

InitPhone ==
    /\ InitStore
    /\ pmIn = [messageText |-> "m1", history |-> <<>>,
               llm |-> [kind |-> "ok", result |-> FallbackResult]]
    /\ pmOut = NotCalled
    /\ extractions = {ExtractedData}
    /\ phoneIn \in PhoneInputs
    /\ phoneOut = PhoneNotCalled
    /\ sheetsService = NewSheetsService(TRUE)

CallValidatePhoneNumber ==
    /\ ~phoneOut.validated
    /\ phoneOut' = [phoneOut EXCEPT !.validated = TRUE,
                                     !.valid = ValidatePhoneNumber(phoneIn)]
    /\ UNCHANGED <<customers, conversations, orders, hs, nextEv, res, mirrored,
                   pmIn, pmOut, extractions, phoneIn, sheetsService>>

CallNormalizePhoneNumber ==
    /\ ~phoneOut.normalized
    /\ phoneOut' = [phoneOut EXCEPT !.normalized = TRUE,
                                     !.canonical = NormalizePhoneNumber(phoneIn)]
    /\ UNCHANGED <<customers, conversations, orders, hs, nextEv, res, mirrored,
                   pmIn, pmOut, extractions, phoneIn, sheetsService>>

NextPhone ==
    \/ CallValidatePhoneNumber
    \/ CallNormalizePhoneNumber

SpecPhone == InitPhone /\ [][NextPhone]_vars

\* ------------------------------------------------- googleSheetsService

\* The spreadsheets orders are mirrored to, one per store.
SheetIds == {"A", "B"}

\* What reading a property of a GoogleSpreadsheet whose loadInfo() has not
\* succeeded does: the library refuses with an exception, or hands out
\* nothing (no title, no sheets).
UnloadedReads == {"throws", "undefined"}

\* The appendOrder calls under way or finished.
SheetCalls == DOMAIN sheetsService.calls

\* The GoogleSpreadsheet object this.doc refers to.
ThisDoc == sheetsService.docs[sheetsService.doc]

\* One step of call c of appendOrder, leaving everything else alone.
SheetStep(c, pc, error) ==
    [sheetsService.calls EXCEPT ![c].pc = pc, ![c].error = error]

\* init: "if already initialized with this sheet, skip".
InitSkips(spreadsheetId) ==
    /\ sheetsService.initialized
    /\ sheetsService.doc # 0
    /\ ThisDoc.spreadsheetId = spreadsheetId

\* appendOrder(order, sheetId) is called: init(sheetId) runs up to its
\* first await.  It returns at once when the sheet is the one loaded or
\* the credentials are missing; otherwise this.doc becomes a new
\* GoogleSpreadsheet and loadInfo() is called on it.
AppendOrder ==
    \E sheetId \in SheetIds :
      LET c == Cardinality(SheetCalls) + 1
          call == [pc |-> "afterInit", order |-> c, sheetId |-> sheetId,
                   sheet |-> 0, error |-> ""]
      IN /\ c <= MaxSheetCalls
         /\ IF InitSkips(sheetId) \/ ~sheetsService.credentials
            THEN sheetsService' =
                   [sheetsService EXCEPT !.calls = @ @@ (c :> call)]
            ELSE sheetsService' =
                   [sheetsService EXCEPT
                      !.calls = @ @@ (c :> [call EXCEPT !.pc = "loadInfo"]),
                      !.docs = @ @@ (c :> [spreadsheetId |-> sheetId,
                                           loaded |-> FALSE]),
                      !.doc = c]
         /\ UNCHANGED <<customers, conversations, orders, hs, nextEv, res, mirrored,
                        pmIn, pmOut, extractions, phoneIn, phoneOut>>

\* init after `await this.doc.loadInfo()` on the document the call made:
\* it threw, which is caught and logged; or it loaded that document, the
\* title of what this.doc now is is read for the log, and initialized
\* becomes true.  When this.doc is by now another call's document, not yet
\* loaded, reading its title may throw into the same catch.
LoadInfo(c) ==
    /\ sheetsService.calls[c].pc = "loadInfo"
    /\ \/ sheetsService' =
            [sheetsService EXCEPT !.calls = SheetStep(c, "afterInit", "")]
       \/ \E read \in UnloadedReads :
            LET docs == [sheetsService.docs EXCEPT ![c].loaded = TRUE]
            IN IF ~docs[sheetsService.doc].loaded /\ read = "throws"
               THEN sheetsService' =
                      [sheetsService EXCEPT !.docs = docs,
                                            !.calls = SheetStep(c, "afterInit", "")]
               ELSE sheetsService' =
                      [sheetsService EXCEPT !.docs = docs,
                                            !.initialized = TRUE,
                                            !.calls = SheetStep(c, "afterInit", "")]
    /\ UNCHANGED <<customers, conversations, orders, hs, nextEv, res, mirrored,
                   pmIn, pmOut, extractions, phoneIn, phoneOut>>

\* appendOrder after `await this.init(sheetId)`: it returns when the
\* service is not initialized; otherwise it takes the first sheet of what
\* this.doc now is.  Of a document that was never loaded that read throws,
\* or gives no sheet and the call on it throws: either way into appendOrder's
\* catch.
AfterInit(c) ==
    /\ sheetsService.calls[c].pc = "afterInit"
    /\ IF ~sheetsService.initialized
       THEN sheetsService' = [sheetsService EXCEPT !.calls = SheetStep(c, "done", "")]
       ELSE IF ThisDoc.loaded
       THEN sheetsService' =
              [sheetsService EXCEPT
                 !.calls = [SheetStep(c, "loadHeaderRow", "")
                              EXCEPT ![c].sheet = sheetsService.doc]]
       ELSE sheetsService' =
              [sheetsService EXCEPT !.calls = SheetStep(c, "done", "notLoaded")]
    /\ UNCHANGED <<customers, conversations, orders, hs, nextEv, res, mirrored,
                   pmIn, pmOut, extractions, phoneIn, phoneOut>>

\* `await sheet.loadHeaderRow()` resolves, or rejects into the catch.
LoadHeaderRow(c) ==
    /\ sheetsService.calls[c].pc = "loadHeaderRow"
    /\ \/ sheetsService' = [sheetsService EXCEPT !.calls = SheetStep(c, "addRow", "")]
       \/ sheetsService' =
            [sheetsService EXCEPT !.calls = SheetStep(c, "done", "loadHeaderRow")]
    /\ UNCHANGED <<customers, conversations, orders, hs, nextEv, res, mirrored,
                   pmIn, pmOut, extractions, phoneIn, phoneOut>>

\* `await sheet.addRow(rowData)`: the order's row is added to the
\* spreadsheet the sheet belongs to, or the call rejects into the catch.
AddRow(c) ==
    /\ sheetsService.calls[c].pc = "addRow"
    /\ \/ sheetsService' =
            [sheetsService EXCEPT
               !.rows = @ \cup {[order |-> sheetsService.calls[c].order,
                                 spreadsheetId |->
                                   sheetsService.docs[sheetsService.calls[c].sheet].spreadsheetId]},
               !.calls = SheetStep(c, "done", "")]
       \/ sheetsService' = [sheetsService EXCEPT !.calls = SheetStep(c, "done", "addRow")]
    /\ UNCHANGED <<customers, conversations, orders, hs, nextEv, res, mirrored,
                   pmIn, pmOut, extractions, phoneIn, phoneOut>>

InitSheets ==
    /\ InitStore
    /\ pmIn = [messageText |-> "m1", history |-> <<>>,
               llm |-> [kind |-> "ok", result |-> FallbackResult]]
    /\ pmOut = NotCalled
    /\ extractions = {ExtractedData}
    /\ phoneIn = NullChars
    /\ phoneOut = [validated |-> FALSE, valid |-> FALSE, normalized |-> FALSE,
                   canonical |-> NullChars]
    /\ sheetsService \in {NewSheetsService(credentials) : credentials \in BOOLEAN}

\* appendOrder is called for one order after another, without waiting for
\* the call before: handleMessage starts it and does not await it.
NextSheets ==
    \/ AppendOrder
    \/ \E c \in SheetCalls : LoadInfo(c)
    \/ \E c \in SheetCalls : AfterInit(c)
    \/ \E c \in SheetCalls : LoadHeaderRow(c)
    \/ \E c \in SheetCalls : AddRow(c)

SpecSheets == InitSheets /\ [][NextSheets]_vars

\* One call at a time: appendOrder is called after the call before it has
\* ended.
AppendOrderAlone ==
    /\ \A c \in SheetCalls : sheetsService.calls[c].pc = "done"
    /\ AppendOrder

NextSheetsSeq ==
    \/ AppendOrderAlone
    \/ \E c \in SheetCalls : LoadInfo(c)
    \/ \E c \in SheetCalls : AfterInit(c)
    \/ \E c \in SheetCalls : LoadHeaderRow(c)
    \/ \E c \in SheetCalls : AddRow(c)

SpecSheetsSeq == InitSheets /\ [][NextSheetsSeq]_vars

\* ------------------------------------------------------------------ claims

\* The handler has the classifier's result.
Classified(h) == hs[h].ai # NoAi

\* The stored conversation the handler's document is.
StoredDoc(h) == conversations[hs[h].doc.id]

\* C1 as stated: when the handler of a text message has finished, an Order
\* of that message is stored if and only if the classifier result had
\* intent "ordering", isOrderReady true and confidence above 0.6.
C1_OrderIffGate ==
    \A h \in Active :
       hs[h].pc = "done" /\ Classified(h)
         => ((h \in DOMAIN orders)
               <=> (/\ hs[h].ai.intent = "ordering"
                    /\ hs[h].ai.isOrderReady
                    /\ hs[h].ai.confidence > 60))

\* C1 as amended: once the handler is past order.save(), an Order of its
\* message is stored if and only if the result had intent "ordering",
\* isOrderReady true, confidence above 0.6, and building and saving the
\* Order did not throw; every stored Order carries a confidence above 0.6;
\* and with a result that fails the gate (confidence exactly 0.6 included)
\* the handler's conversation is order_created only if it was loaded so.
C1_OrderIffGateAndSaved ==
    /\ \A h \in Active :
          Classified(h) /\ hs[h].pc # "saveOrder"
            => /\ (h \in DOMAIN orders)
                    <=> (/\ hs[h].ai.intent = "ordering"
                         /\ hs[h].ai.isOrderReady
                         /\ hs[h].ai.confidence > 60
                         /\ hs[h].error # "saveOrder")
               /\ ~(/\ hs[h].ai.intent = "ordering"
                    /\ hs[h].ai.isOrderReady
                    /\ hs[h].ai.confidence > 60)
                    => (hs[h].doc.status = "order_created"
                          => hs[h].loaded = "order_created")
    /\ \A o \in DOMAIN orders : orders[o].aiExtraction.confidence > 60

\* C1's case: an ordering, ready result with confidence exactly 0.6 was
\* handled to the end without an error and no Order of it is stored.
C1_Witness ==
    \E h \in Active :
       /\ hs[h].pc = "done" /\ hs[h].error = ""
       /\ hs[h].ai.intent = "ordering" /\ hs[h].ai.isOrderReady
       /\ hs[h].ai.confidence = 60
       /\ h \notin DOMAIN orders
       /\ hs[h].sent = {"reply"}

\* C2: events handled one after the other never leave two Orders of the
\* same conversation made from the same message with the same confidence
\* (a re-delivery of an event whose handling has finished adds no Order).
C2_RedeliveryAddsNoOrder ==
    \A o1, o2 \in DOMAIN orders :
       (/\ orders[o1].conversation = orders[o2].conversation
        /\ orders[o1].aiExtraction.rawMessage = orders[o2].aiExtraction.rawMessage
        /\ orders[o1].aiExtraction.confidence = orders[o2].aiExtraction.confidence)
         => o1 = o2

\* C3: a stored conversation whose status is order_created keeps that
\* status in every step.
C3_OrderCreatedIsTerminal ==
    [][\A c \in DOMAIN conversations :
          conversations[c].status = "order_created"
            => conversations'[c].status = "order_created"]_vars

\* The handler has loaded its conversation and its last save of it has not
\* resolved yet.
InLoadToSave(h) ==
    hs[h].pc \in {"addCustomerMessage", "classify", "saveOrder", "findOrder",
                  "saveConversation", "addBotMessage"}

\* C4: while one handler is between the load and the last save of a
\* sender's conversation, no other handler's append to the log of a
\* conversation of that sender is stored.
C4_NoInterleavedAppend ==
    [][\A a, b \in Active :
          (/\ a # b
           /\ hs[a].sender = hs[b].sender
           /\ InLoadToSave(a)
           /\ hs[b].pc = "addCustomerMessage")
            => hs'[b].pc # "classify"]_vars

\* C5: two handlers in flight at once for the same sender and the same
\* text never both have an Order stored.
C5_NoConcurrentDuplicateOrder ==
    \A a, b \in Active :
       (/\ a # b
        /\ hs[a].sender = hs[b].sender
        /\ hs[a].text = hs[b].text
        /\ a \in DOMAIN orders)
         => b \notin DOMAIN orders

\* C6: no two stored conversations have the same facebookConversationId.
C6_OneConversationPerSender ==
    \A c1, c2 \in DOMAIN conversations :
       conversations[c1].facebookConversationId = conversations[c2].facebookConversationId
         => c1 = c2

\* C7: a call of processMessage in which the language-model call throws or
\* returns content that is not parsable JSON does not throw and returns
\* the fixed fallback value.
C7_FallbackOnFailure ==
    pmOut.called /\ pmIn.llm.kind \in {"throw", "unparsable"}
      => /\ ~pmOut.threw
         /\ pmOut.value =
              [intent |-> "other", isOrderReady |-> FALSE, confidence |-> 0,
               data |-> [items |-> <<>>, phone |-> Null, full_address |-> Null],
               missingFields |-> <<"items">>]

\* C7's case: the content was not parsable and the call has returned.
C7_Witness ==
    /\ pmOut.called /\ pmIn.llm.kind = "unparsable" /\ ~pmOut.threw
    /\ pmOut.value.intent = "other"
    /\ Len(pmIn.history) = MaxHistory

\* The status C8 gives for a result that fails the gate.
C8_Expected(h) ==
    IF hs[h].ai.intent = "ordering" /\ ~hs[h].ai.isOrderReady
    THEN "waiting_for_info"
    ELSE hs[h].loaded

\* C8: with events handled one after the other, a handler whose result
\* fails the gate stores no Order, its conversation has status
\* waiting_for_info if the intent is "ordering" and the order not ready and
\* otherwise the status it was loaded with, and that is the stored status
\* once conversation.save() has succeeded; until then the stored status is
\* the one loaded.
C8_StatusWhenGateFails ==
    \A h \in Active :
       (/\ Classified(h)
        /\ ~(/\ hs[h].ai.intent = "ordering"
             /\ hs[h].ai.isOrderReady
             /\ hs[h].ai.confidence > 60))
         => /\ h \notin DOMAIN orders
            /\ hs[h].doc.status = C8_Expected(h)
            /\ StoredDoc(h).status =
                 IF \/ hs[h].pc \in {"addBotMessage", "sendReply"}
                    \/ hs[h].error \in {"addBotMessage", "sendTypingIndicator", "sendMessage"}
                    \/ hs[h].pc = "done" /\ hs[h].error = ""
                 THEN C8_Expected(h)
                 ELSE hs[h].loaded

\* C8's case: an inquiry on a conversation that was waiting_for_info has
\* been handled to the end and the stored status is still waiting_for_info.
C8_Witness ==
    \E h \in Active :
       /\ hs[h].pc = "done" /\ hs[h].error = ""
       /\ hs[h].ai.intent = "inquiry"
       /\ hs[h].loaded = "waiting_for_info"
       /\ StoredDoc(h).status = "waiting_for_info"
       /\ orders = <<>>

\* C9: once the handler has the classifier's result, its conversation's
\* currentIntent is ordering, inquiry, complaint or browsing: the result's
\* intent when that is one of the four, browsing otherwise.
C9_CurrentIntentIsAnIntent ==
    \A h \in Active :
       Classified(h)
         => /\ hs[h].doc.currentIntent \in {"ordering", "inquiry", "complaint", "browsing"}
            /\ hs[h].doc.currentIntent =
                 IF hs[h].ai.intent \in {"ordering", "inquiry", "complaint", "browsing"}
                 THEN hs[h].ai.intent
                 ELSE "browsing"

IsPrefix(s, t) == Len(s) <= Len(t) /\ SubSeq(t, 1, Len(s)) = s

\* The place of the handler's own customer entry in its document's log: the
\* last customer entry there (none when the log has no customer entry).
OwnEntry(h) ==
    { i \in 1..Len(hs[h].doc.messages) :
        /\ hs[h].doc.messages[i].sender = "customer"
        /\ \A j \in (i + 1)..Len(hs[h].doc.messages) :
              hs[h].doc.messages[j].sender # "customer" }

\* The handler's customer entry is in the stored log, at its place in the
\* handler's document or later.
CustomerEntryStored(h) ==
    /\ hs[h].doc.id \in DOMAIN conversations
    /\ \E i \in OwnEntry(h) :
          \E j \in i..Len(StoredDoc(h).messages) :
             StoredDoc(h).messages[j] = [sender |-> "customer", text |-> hs[h].text]

\* C10: every step keeps every stored conversation and its log as a prefix
\* of the new log; and from the moment the classifier can be called, and
\* whatever fails afterwards, the handler's customer entry is in the stored
\* log.
C10_LogAppendOnly ==
    /\ [][\A c \in DOMAIN conversations :
             /\ c \in DOMAIN conversations'
             /\ IsPrefix(conversations[c].messages, conversations'[c].messages)]_vars
    /\ [](\A h \in Active :
             (\/ hs[h].pc = "classify"
              \/ Classified(h)
              \/ hs[h].error \in {"sendTypingIndicator", "processMessage"})
               => CustomerEntryStored(h))

\* C10's case: a second message's entry is in a stored log of three entries
\* after its order.save() failed.
C10_Witness ==
    \E h \in Active :
       /\ hs[h].pc = "done" /\ hs[h].error = "saveOrder"
       /\ Len(StoredDoc(h).messages) = 3
       /\ StoredDoc(h).messages[3] = [sender |-> "customer", text |-> hs[h].text]
       /\ StoredDoc(h).messages[2].sender = "bot"

\* C11: when sendMessage is about to be called with the reply, and once
\* it has been sent, nothing of the event's changes to its conversation is
\* unsaved: the stored conversation has the handler's status and
\* currentIntent and its whole log, which ends with the customer's message
\* and the bot's reply.
C11_PersistBeforeReply ==
    \A h \in Active :
       (hs[h].pc = "sendReply" \/ "reply" \in hs[h].sent)
         => /\ hs[h].doc.id \in DOMAIN conversations
            /\ ~hs[h].doc.isNew /\ hs[h].doc.unsaved = 0
            /\ ~hs[h].doc.modStatus /\ ~hs[h].doc.modIntent
            /\ StoredDoc(h).status = hs[h].doc.status
            /\ StoredDoc(h).currentIntent = hs[h].doc.currentIntent
            /\ StoredDoc(h).currentIntent = CurrentIntentOf(hs[h].ai)
            /\ StoredDoc(h).messages = hs[h].doc.messages
            /\ LET n == Len(StoredDoc(h).messages)
               IN /\ n >= 2
                  /\ StoredDoc(h).messages[n] = [sender |-> "bot", text |-> hs[h].response]
                  /\ StoredDoc(h).messages[n - 1] =
                        [sender |-> "customer", text |-> hs[h].text]

\* C11's case: the reply to an ordering message that is not ready has been
\* sent, and the stored conversation is waiting_for_info with intent
\* ordering and both entries.
C11_Witness ==
    \E h \in Active :
       /\ hs[h].pc = "done" /\ "reply" \in hs[h].sent
       /\ StoredDoc(h).status = "waiting_for_info"
       /\ StoredDoc(h).currentIntent = "ordering"
       /\ Len(StoredDoc(h).messages) = 2

\* C12: every stored conversation whose status is order_created has a
\* stored Order that references it; and when order.save() has failed, no
\* Order of the message is stored and the stored conversation has the
\* status it was loaded with.
C12_OrderCreatedHasOrder ==
    /\ \A c \in DOMAIN conversations :
          conversations[c].status = "order_created"
            => \E o \in DOMAIN orders : orders[o].conversation = c
    /\ \A h \in Active :
          hs[h].error = "saveOrder"
            => /\ h \notin DOMAIN orders
               /\ StoredDoc(h).status = hs[h].loaded

\* C12's case: order.save() failed for a message that passed the gate, and
\* the stored conversation is still waiting_for_info.
C12_Witness ==
    \E h \in Active :
       /\ hs[h].pc = "done" /\ hs[h].error = "saveOrder"
       /\ GatePasses(hs[h].ai)
       /\ StoredDoc(h).status = "waiting_for_info"
       /\ orders = <<>>

OwnOrder(h) == orders[h]
Extracted(h) == hs[h].ai.data

\* C15: the stored Order of a message has as many line items as the
\* extraction, in the same order, each with the extracted name, the
\* extracted quantity or 1 when it is missing, and the extracted price or 0
\* when it is missing.
C15_ItemsMappedOneToOne ==
    \A h \in Active :
       h \in DOMAIN orders
         => /\ Len(OwnOrder(h).items) = Len(Extracted(h).items)
            /\ \A i \in 1..Len(Extracted(h).items) :
                  /\ Extracted(h).items[i].name # Null
                       => OwnOrder(h).items[i].itemName = Extracted(h).items[i].name
                  /\ OwnOrder(h).items[i].quantity =
                        (IF Extracted(h).items[i].quantity = 0
                         THEN 1 ELSE Extracted(h).items[i].quantity)
                  /\ OwnOrder(h).items[i].price = Extracted(h).items[i].price

RECURSIVE Total(_)
Total(items) ==
    IF items = <<>> THEN 0
    ELSE items[1].price * items[1].quantity + Total(Tail(items))

\* C16: the stored Order's totalAmount is the sum over its line items of
\* price times quantity, and is 0 only when no extracted item has a price.
C16_TotalIsSumOfLines ==
    \A h \in Active :
       h \in DOMAIN orders
         => /\ OwnOrder(h).totalAmount = Total(OwnOrder(h).items)
            /\ OwnOrder(h).totalAmount = 0
                 => \A i \in 1..Len(Extracted(h).items) :
                       Extracted(h).items[i].price = 0

\* C17: every stored Order has at least one line item.
C17_ItemsNeverEmpty ==
    \A o \in DOMAIN orders : orders[o].items # <<>>

\* C18: the stored Order's phoneNumber is the placeholder, or the extracted
\* phone has a canonical form (normalizePhoneNumber gives eight digits) and
\* the stored phoneNumber is that form.
C18_PhoneCanonicalOrSentinel ==
    \A h \in Active :
       h \in DOMAIN orders
         => \/ OwnOrder(h).phoneNumber = "99999999"
            \/ /\ NormalizePhoneNumber(PhoneChars[Extracted(h).phone]) # NullChars
               /\ PhoneChars[OwnOrder(h).phoneNumber] =
                     NormalizePhoneNumber(PhoneChars[Extracted(h).phone])

\* C19: the stored Order's needsReview is true exactly when the extracted
\* phone or the extracted address is null or empty; a missing phone or
\* address is stored as its placeholder and one that is there as it was
\* extracted; rawMessage, extractedData and confidence are the message text
\* and the classifier result's data and confidence.
C19_NeedsReviewAndProvenance ==
    \A h \in Active :
       h \in DOMAIN orders
         => /\ OwnOrder(h).aiExtraction.needsReview
                 <=> (\/ Extracted(h).phone \in {Null, ""}
                      \/ Extracted(h).full_address \in {Null, ""})
            /\ OwnOrder(h).phoneNumber =
                  (IF Extracted(h).phone \in {Null, ""}
                   THEN "99999999" ELSE Extracted(h).phone)
            /\ OwnOrder(h).address =
                  (IF Extracted(h).full_address \in {Null, ""}
                   THEN "address-unknown" ELSE Extracted(h).full_address)
            /\ OwnOrder(h).aiExtraction.rawMessage = hs[h].text
            /\ OwnOrder(h).aiExtraction.extractedData = Extracted(h)
            /\ OwnOrder(h).aiExtraction.confidence = hs[h].ai.confidence

\* C19's case: an Order is stored from an extraction with an address and no
\* phone: it needs review and carries the phone placeholder.
C19_Witness ==
    \E h \in Active :
       /\ h \in DOMAIN orders
       /\ Extracted(h).phone = Null /\ Extracted(h).full_address = "BZD-14"
       /\ OwnOrder(h).aiExtraction.needsReview
       /\ OwnOrder(h).phoneNumber = "99999999"
       /\ OwnOrder(h).address = "BZD-14"

\* The places of the digits in a phone string.
DigitPlaces(raw) == {i \in 1..Len(raw) : raw[i] \in Digits}

\* C20: validatePhoneNumber gives true exactly when its argument is not
\* null or empty, has exactly eight digits among its characters, and the
\* first of those digits is 6, 7, 8 or 9; "99112233" and "9911-2233" are
\* valid, "12345678" and "991122" are not.
C20_ValidIffEightDigitsLeading6to9 ==
    phoneOut.validated
      => /\ phoneOut.valid
              <=> (/\ phoneIn \notin {NullChars, <<>>}
                   /\ Cardinality(DigitPlaces(phoneIn)) = 8
                   /\ \E i \in DigitPlaces(phoneIn) :
                         /\ \A j \in DigitPlaces(phoneIn) : i <= j
                         /\ phoneIn[i] \in {"6", "7", "8", "9"})
         /\ phoneIn \in {PhoneChars["99112233"], PhoneChars["9911-2233"]} => phoneOut.valid
         /\ phoneIn \in {PhoneChars["12345678"], PhoneChars["991122"]} => ~phoneOut.valid

\* C20's case: a string of nine characters, one of them no digit, was found
\* valid.
C20_Witness ==
    /\ phoneOut.validated /\ phoneOut.valid
    /\ Len(phoneIn) = 9
    /\ \E i \in 1..Len(phoneIn) : phoneIn[i] \notin Digits

\* C14: no handler's promise rejects: whatever fails, the apology send in
\* the catch block included, handleMessage resolves.
C14_HandleMessageResolves ==
    \A h \in Active : hs[h].pc # "rejected"

\* C21: what normalizePhoneNumber gives, when not null, is a string of
\* eight digits that normalizePhoneNumber gives back unchanged; and it gives
\* null exactly when its argument is null or empty or does not have exactly
\* eight digits among its characters, whatever the first digit is.
C21_NormalizeIdempotent ==
    phoneOut.normalized
      => /\ phoneOut.canonical # NullChars
              => /\ Len(phoneOut.canonical) = 8
                 /\ \A i \in 1..Len(phoneOut.canonical) : phoneOut.canonical[i] \in Digits
                 /\ NormalizePhoneNumber(phoneOut.canonical) = phoneOut.canonical
         /\ phoneOut.canonical = NullChars
              <=> (\/ phoneIn \in {NullChars, <<>>}
                   \/ Cardinality(DigitPlaces(phoneIn)) # 8)

\* C21's case: a string with a non-digit and eight digits, the first of them
\* not in 6..9, was normalized to its eight digits.
C21_Witness ==
    /\ phoneOut.normalized /\ phoneOut.canonical # NullChars
    /\ Len(phoneIn) = 9
    /\ phoneOut.canonical[1] = "5"

\* The handler's log as it stood before its message was pushed.
LogBefore(h) == SubSeq(hs[h].doc.messages, 1, Len(hs[h].doc.messages) - 1)

\* C22: from the moment the customer's message is pushed until the
\* classifier is called, the handler's history has at most 5 entries and is
\* the last min(5, n) entries, in their order, of the n entries the log had
\* before the push, which for a stored conversation is the stored log
\* until the push is saved; the pushed entry is none of them.
C22_HistoryIsLastFiveBefore ==
    \A h \in Active :
       hs[h].pc \in {"addCustomerMessage", "classify"}
         => LET before == LogBefore(h)
                n == Len(before)
                k == Len(hs[h].history)
            IN /\ k <= 5
               /\ k = (IF n < 5 THEN n ELSE 5)
               /\ \A i \in 1..k : hs[h].history[i] = before[n - k + i]
               /\ hs[h].doc.messages[n + 1] = [sender |-> "customer", text |-> hs[h].text]
               /\ (hs[h].pc = "addCustomerMessage" /\ ~hs[h].doc.isNew)
                    => before = StoredDoc(h).messages

\* C22's case: the classifier is about to be called for a conversation that
\* had seven entries, with the last five of them as history.
C22_Witness ==
    \E h \in Active :
       /\ hs[h].pc = "classify"
       /\ Len(LogBefore(h)) = 7
       /\ Len(hs[h].history) = 5
       /\ hs[h].history[1] = LogBefore(h)[3]
       /\ hs[h].history[1] # LogBefore(h)[1]

\* C23: while an entry's handler is in flight, however far it is and
\* whatever has failed, its delivery has been answered 200; a step that
\* takes in entries answers 200; and a step that answers 404 starts no
\* handler and changes nothing that is stored.
C23_AckBeforeProcessing ==
    /\ [](\A h \in Active : res = 200)
    /\ [][/\ nextEv' # nextEv => res' = 200
          /\ res' = 404 =>
                UNCHANGED <<customers, conversations, orders, hs, nextEv, mirrored>>]_vars

\* C23's case: a text message's handler ended in its catch block, where the
\* apology send failed too, and the delivery stands answered 200.
C23_Witness ==
    \E h \in Active :
       /\ hs[h].pc = "done" /\ hs[h].kind = "text"
       /\ hs[h].error # "" /\ hs[h].sent = {}
       /\ res = 200

\* A step in which handler h hands its Order to appendOrder.
Dispatches(h) ==
    /\ h \in DOMAIN hs' /\ hs[h].mirror = "" /\ hs'[h].mirror # ""

\* C24: every Order handed to appendOrder is stored; an Order is handed over
\* only by its own handler's step after order.save() and findById, only if
\* it was not handed over before, and that step leaves the call pending and
\* goes on to the reply path; no other step hands an Order over; and the
\* settling of the call changes nothing of the handler but the call's fate.
C24_MirrorOnceAfterSaveNotAwaited ==
    /\ [](mirrored \subseteq DOMAIN orders)
    /\ [][\A h \in Active :
            /\ Dispatches(h) =>
                  /\ hs[h].pc = "findOrder" /\ hs[h].orderId \in DOMAIN orders
                  /\ hs[h].orderId \notin mirrored
                  /\ mirrored' = mirrored \cup {hs[h].orderId}
                  /\ hs'[h].mirror = "pending"
                  /\ hs'[h].pc = "saveConversation"
            /\ (h \in DOMAIN hs' /\ hs[h].mirror = "pending"
                   /\ hs'[h].mirror # "pending") =>
                  hs' = [hs EXCEPT ![h].mirror = hs'[h].mirror]]_vars
    /\ [][mirrored' # mirrored => \E h \in Active : Dispatches(h)]_vars

\* C24's case: the reply has been sent and the handler has finished while
\* the appendOrder call for its stored Order is still pending.
C24_Witness ==
    \E h \in Active :
       /\ hs[h].pc = "done" /\ hs[h].error = "" /\ hs[h].sent = {"reply"}
       /\ hs[h].mirror = "pending"
       /\ hs[h].orderId \in mirrored /\ hs[h].orderId \in DOMAIN orders

\* C25: a handler that has finished and stored an Order has left its
\* conversation stored with status order_created.
C25_OrderImpliesOrderCreated ==
    \A h \in Active :
       (hs[h].pc = "done" /\ h \in DOMAIN orders)
         => StoredDoc(h).status = "order_created"

\* C26: the handler of every text event reaches its end; all along, the
\* customer has been sent nothing, the reply alone or the apology alone, and
\* the apology only after a step of the normal path failed.
C26_TerminatesWithOneText ==
    /\ [](\A h \in Active :
            hs[h].kind = "text"
              => /\ hs[h].sent \in {{}, {"reply"}, {"apology"}}
                 /\ "apology" \in hs[h].sent => hs[h].error # "")
    /\ \A e \in 1..MaxSeqEvents :
         (e \in Active /\ hs[e].kind = "text")
            ~> (e \in Active /\ hs[e].pc = "done")

\* C26's case: the reply's sendMessage failed as the last step of the
\* normal path, and the handler ended with the apology as the one text sent.
C26_Witness ==
    \E h \in Active :
       /\ hs[h].kind = "text" /\ hs[h].pc = "done"
       /\ hs[h].error = "sendMessage" /\ hs[h].sent = {"apology"}

\* The events without text that are answered: a message with attachments
\* only, and a postback.
NoTextKinds == {"attachment", "postback"}

\* A step of, or the start of, the handler of an event without text.
NoTextStep ==
    \/ \E h \in Active : hs[h].kind \in NoTextKinds
    \/ \E h \in DOMAIN hs' : hs'[h].kind \in NoTextKinds

\* C27 as stated: handling an event without text changes no stored record
\* and hands nothing to the mirror, the classifier is not called, and when
\* the handler has finished sendMessage has been called exactly once.
C27_NoTextExactlyOneSend ==
    /\ [][NoTextStep => UNCHANGED <<customers, conversations, orders, mirrored>>]_vars
    /\ [](\A h \in Active :
            hs[h].kind \in NoTextKinds
              => /\ ~Classified(h) /\ hs[h].mirror = ""
                 /\ hs[h].pc = "done" => hs[h].sends = 1)

\* C27 amended: the frame as stated; sendMessage is called once, and a
\* second time, for the apology, exactly when the notice for an attachment
\* failed to be sent; at most one text reaches the customer, and exactly
\* one when no send failed.
C27_NoTextOneSendOrApology ==
    /\ [][NoTextStep => UNCHANGED <<customers, conversations, orders, mirrored>>]_vars
    /\ [](\A h \in Active :
            hs[h].kind \in NoTextKinds
              => /\ ~Classified(h) /\ hs[h].mirror = ""
                 /\ hs[h].pc = "done"
                      => /\ hs[h].sends \in {1, 2}
                         /\ hs[h].sends = 2
                              <=> (hs[h].kind = "attachment" /\ hs[h].error # "")
                         /\ Cardinality(hs[h].sent) <= 1
                         /\ hs[h].error = "" => Cardinality(hs[h].sent) = 1)

\* C27's case: with a customer, a conversation and an Order stored by an
\* earlier message, an attachment's notice has been sent and the handler
\* has finished.
C27_Witness ==
    \E h \in Active :
       /\ hs[h].kind = "attachment" /\ hs[h].pc = "done"
       /\ hs[h].sends = 1 /\ hs[h].sent = {"notice"}
       /\ orders # <<>> /\ conversations # <<>>

\* C28: whenever no init is waiting for loadInfo() and the service says it
\* is initialized, this.doc is a spreadsheet whose loadInfo() has
\* succeeded; and no appendOrder call has gone on to use a document that
\* was never loaded.
C28_InitializedImpliesLoaded ==
    /\ (sheetsService.initialized
          /\ \A c \in SheetCalls : sheetsService.calls[c].pc # "loadInfo")
         => (sheetsService.doc # 0 /\ ThisDoc.loaded)
    /\ \A c \in SheetCalls : sheetsService.calls[c].error # "notLoaded"

\* C29: every row in a spreadsheet is the row of an order whose appendOrder
\* call named that spreadsheet.
C29_RowInOwnSpreadsheet ==
    \A row \in sheetsService.rows :
       row.spreadsheetId = sheetsService.calls[row.order].sheetId

====
